---- MODULE Spec2Model ----
(***************************************************************************)
(* terraform-provider-berth: the berth_role and berth_role_permission      *)
(* resources and the REST client they drive.                               *)
(*                                                                         *)
(* A handler (Create, Read, Update, Delete of either resource) is a        *)
(* sequence of client calls.  Each action below is one client call         *)
(* together with the local computation that follows it up to the next      *)
(* call (or the return).  The remote Berth server is shared: the calls of  *)
(* the two resources' handlers interleave under Spec, and run one handler  *)
(* at a time under SpecSeq.                                                *)
(***************************************************************************)
EXTENDS Integers, Sequences, FiniteSets, Bags, TLC

VARIABLES
    roles,      \* remote: the set of role records [id, name, description]
    rules,      \* remote: the permission rules, in creation order
    nextRole,   \* remote: the id the next created role gets
    nextRule,   \* remote: the id the next created rule gets
    roleState,  \* Terraform state of the berth_role resource
    rpState,    \* Terraform state of the berth_role_permission resource
    rh,         \* the berth_role handler in flight (or the last one run)
    ph,         \* the berth_role_permission handler in flight (or the last)
    ops         \* handlers Terraform has started

vars == <<roles, rules, nextRole, nextRule, roleState, rpState, rh, ph, ops>>

\* ---------------------------------------------------------------- bounds

\* handlers Terraform starts in one run
MaxOps == 2

\* ---------------------------------------------------------------- values

\* types.String null / unknown (markers outside the value space of strings)
Null == "<null>"
Unknown == "<unknown>"
\* a resource that is not in the Terraform state
NoState == [absent |-> TRUE]
\* the id of a computed attribute the handler never set
UnknownId == <<"?">>

\* The permissions the server knows (ListPermissions), id by position.
PermissionCatalogue ==
    << [id |-> 1, name |-> "stacks.read"], [id |-> 2, name |-> "stacks.manage"] >>

\* ------------------------------------------------- strconv (ids as text)

Digits == <<"0", "1", "2", "3", "4", "5", "6", "7", "8", "9">>

RECURSIVE FormatUint(_)
\* strconv.FormatUint(n, 10): the decimal digits of n, as a sequence of characters
FormatUint(n) ==
    IF n < 10 THEN <<Digits[n + 1]>>
    ELSE Append(FormatUint(n \div 10), Digits[(n % 10) + 1])

DigitValue(c) == CHOOSE d \in 0..9 : Digits[d + 1] = c

RECURSIVE ParseDigits(_)
ParseDigits(s) ==
    IF Len(s) = 0 THEN 0
    ELSE 10 * ParseDigits(SubSeq(s, 1, Len(s) - 1)) + DigitValue(s[Len(s)])

\* strconv.ParseUint(s, 10, 64): the value, or -1 for the error
ParseUint(s) ==
    IF Len(s) = 0 \/ \E i \in 1..Len(s) : \A d \in 1..10 : Digits[d] # s[i]
    THEN -1
    ELSE ParseDigits(s)

IsDigit(c) == \E d \in 1..10 : Digits[d] = c

RECURSIVE StripZeros(_)
\* the digits without their leading zeros (one digit stays)
StripZeros(s) == IF Len(s) > 1 /\ s[1] = "0" THEN StripZeros(Tail(s)) ELSE s

\* the digits of 1<<63 - 1
MaxInt64 ==
    <<"9", "2", "2", "3", "3", "7", "2", "0", "3", "6", "8", "5", "4", "7", "7",
      "5", "8", "0", "7">>

RECURSIVE DigitsLeq(_, _)
\* a <= b, for digit sequences of one length
DigitsLeq(a, b) ==
    IF Len(a) = 0 THEN TRUE
    ELSE IF a[1] = b[1] THEN DigitsLeq(Tail(a), Tail(b))
    ELSE DigitValue(a[1]) < DigitValue(b[1])

\* strconv.ParseInt(s, 10, 64): an optional sign, then digits; err for a
\* syntax error and for a value outside -(1<<63) .. (1<<63 - 1)
ParseInt(s) ==
    LET signed == Len(s) > 0 /\ s[1] \in {"+", "-"}
        neg == Len(s) > 0 /\ s[1] = "-"
        body == IF signed THEN Tail(s) ELSE s
        syntax == Len(body) = 0 \/ \E i \in 1..Len(body) : ~IsDigit(body[i])
        mag == StripZeros(body)
        cutoff == IF neg THEN [MaxInt64 EXCEPT ![Len(MaxInt64)] = "8"] ELSE MaxInt64
        range == \/ Len(mag) > Len(cutoff)
                 \/ Len(mag) = Len(cutoff) /\ ~DigitsLeq(mag, cutoff)
    IN IF syntax \/ range THEN [err |-> TRUE, val |-> 0]
       ELSE [err |-> FALSE,
             val |-> IF neg THEN 0 - ParseDigits(body) ELSE ParseDigits(body)]

\* strings.SplitN(s, sep, 2): a split at the first separator only
SplitFirst(s, sep) ==
    IF \A i \in 1..Len(s) : s[i] # sep THEN <<s>>
    ELSE LET c == CHOOSE i \in 1..Len(s) :
                    s[i] = sep /\ \A j \in 1..(i - 1) : s[j] # sep
         IN <<SubSeq(s, 1, c - 1), SubSeq(s, c + 1, Len(s))>>

RECURSIVE Split(_, _)
\* strings.Split(s, sep) for a separator of one character
Split(s, sep) ==
    IF \A i \in 1..Len(s) : s[i] # sep THEN <<s>>
    ELSE LET c == CHOOSE i \in 1..Len(s) :
                    s[i] = sep /\ \A j \in 1..(i - 1) : s[j] # sep
         IN <<SubSeq(s, 1, c - 1)>> \o Split(SubSeq(s, c + 1, Len(s)), sep)

\* ------------------------------------------------------------ the remote

\* ListRolePermissions(roleID): the rules of the role, in the server's order
RulesOf(all, roleID) == SelectSeq(all, LAMBDA p : p.role = roleID)

RoleExists(id) == \E r \in roles : r.id = id

TheRole(id) == CHOOSE r \in roles : r.id = id

\* POST /roles/{id}/stack-permissions: a new rule with a fresh id
AppendRule(all, id, roleID, serverID, permissionID, stackPattern) ==
    Append(all, [id |-> id, role |-> roleID, server_id |-> serverID,
                 permission_id |-> permissionID, stack_pattern |-> stackPattern])

\* the role id and the rule id handed over in the wrong order
RemoveRuleSwapped(all, roleID, ruleID) ==
    SelectSeq(all, LAMBDA p : ~(p.role = ruleID /\ p.id = roleID))

\* DELETE /roles/{id}/stack-permissions/{permissionId}
RemoveRule(all, roleID, ruleID) ==
    SelectSeq(all, LAMBDA p : ~(p.role = roleID /\ p.id = ruleID))

\* GetPermissionByName: the first catalogue entry with the name, 0 when none
PermissionIdByName(name) ==
    IF \E i \in 1..Len(PermissionCatalogue) : PermissionCatalogue[i].name = name
    THEN PermissionCatalogue[CHOOSE i \in 1..Len(PermissionCatalogue) :
            /\ PermissionCatalogue[i].name = name
            /\ \A j \in 1..(i - 1) : PermissionCatalogue[j].name # name].id
    ELSE 0

\* permMap[perm.PermissionID] of Read: the name, "" for an id not in the map
PermissionNameById(id) ==
    IF \E i \in 1..Len(PermissionCatalogue) : PermissionCatalogue[i].id = id
    THEN PermissionCatalogue[CHOOSE i \in 1..Len(PermissionCatalogue) :
            PermissionCatalogue[i].id = id].name
    ELSE ""

\* ------------------------------------------------- configurations (plans)

\* permission_set blocks of berth_role configurations
SetBoth ==
    << [server_ids |-> <<1, 2>>,
        permissions |-> << [name |-> "stacks.read", pattern |-> "dev-*"],
                           [name |-> "stacks.manage", pattern |-> Null] >>] >>

SetThenUnknownName ==
    << [server_ids |-> <<1>>,
        permissions |-> << [name |-> "stacks.read", pattern |-> Null] >>],
       [server_ids |-> <<2>>,
        permissions |-> << [name |-> "no.such", pattern |-> Null] >>] >>

SetOne ==
    << [server_ids |-> <<2>>,
        permissions |-> << [name |-> "stacks.manage", pattern |-> "dev-*"] >>] >>

\* inline permissions blocks of berth_role configurations; id is computed, and
\* so unknown in a plan
InlineOne ==
    << [id |-> UnknownId, server_id |-> 1, permission_name |-> "stacks.read",
        stack_pattern |-> Null] >>

InlineTwo ==
    << [id |-> UnknownId, server_id |-> 1, permission_name |-> "stacks.read",
        stack_pattern |-> Unknown],
       [id |-> UnknownId, server_id |-> 2, permission_name |-> "stacks.manage",
        stack_pattern |-> "dev-*"] >>

\* the blocks of the configurations: none, inline only, sets only, both
RoleBlocks ==
    { [permissions |-> << >>, permission_set |-> << >>],
      [permissions |-> InlineOne, permission_set |-> << >>],
      [permissions |-> << >>, permission_set |-> SetBoth],
      [permissions |-> << >>, permission_set |-> SetThenUnknownName],
      [permissions |-> InlineTwo, permission_set |-> SetOne] }

RoleNames == {"dev"}

\* RoleResourceModel values a plan can hold, the id left to the caller
RolePlans(id) ==
    { [id |-> id, name |-> n, description |-> "team",
       permissions |-> b.permissions, permission_set |-> b.permission_set] :
        n \in RoleNames, b \in RoleBlocks }

\* RolePermissionResourceModel values a plan can hold
RolePermissionPlans ==
    { [id |-> UnknownId, role_id |-> 1, server_id |-> 1, permission_name |-> n,
       stack_pattern |-> sp] :
        n \in {"stacks.read"}, sp \in {Null, "dev-*"} }
    \cup
    { [id |-> UnknownId, role_id |-> 1, server_id |-> 1,
       permission_name |-> "no.such", stack_pattern |-> Null],
      [id |-> UnknownId, role_id |-> 2, server_id |-> 1,
       permission_name |-> "stacks.read", stack_pattern |-> Null] }

\* ids a user can hand to terraform import for a berth_role
ImportIds == { <<"1">>, <<"x">> }

\* ids a user can hand to terraform import for a berth_role_permission
RolePermissionImportIds ==
    { <<"1", ":", "1">>, <<"+", "1", ":", "2">>, <<"-", "1", ":", "1">>,
      <<"1", ":", "x">>, <<"1">>, <<"1", ":", "1", ":", "1">>,
      <<"x", ":", "1">>, <<":", "1">>,
      <<"9", "9", "9", "9", "9", "9", "9", "9", "9", "9",
        "9", "9", "9", "9", "9", "9", "9", "9", "9", "9", ":", "1">> }

\* rules the role of the initial remote can hold, made outside Terraform
InitRules ==
    { << >>,
      << [id |-> 1, role |-> 1, server_id |-> 1, permission_id |-> 1,
          stack_pattern |-> "*"] >> }

\* ------------------------------------------- the reconcile loops' position

EndCursor == [phase |-> "end", i |-> 0, j |-> 0, k |-> 0]

\* one loop over servers and permissions together instead of two nested ones
SetPositionsPaired(sets) ==
    UNION { { <<i, j, j>> : j \in (1..Len(sets[i].server_ids)) \cap
                                   (1..Len(sets[i].permissions)) } :
            i \in 1..Len(sets) }

\* The (set, server, permission) index triples the nested loops over
\* data.PermissionSets visit.
SetPositions(sets) ==
    UNION { { <<i, j, k>> : j \in 1..Len(sets[i].server_ids),
                            k \in 1..Len(sets[i].permissions) } :
            i \in 1..Len(sets) }

\* the order in which the nested for-range loops visit two triples
LoopBefore(p, q) ==
    \/ p[1] < q[1]
    \/ p[1] = q[1] /\ p[2] < q[2]
    \/ p[1] = q[1] /\ p[2] = q[2] /\ p[3] < q[3]

FirstPosition(S) == CHOOSE p \in S : \A q \in S \ {p} : LoopBefore(p, q)

InlineCursor(data, i) ==
    IF i <= Len(data.permissions)
    THEN [phase |-> "inline", i |-> i, j |-> 0, k |-> 0]
    ELSE EndCursor

SetCursorFrom(data, S) ==
    IF S # {}
    THEN LET p == FirstPosition(S)
         IN [phase |-> "sets", i |-> p[1], j |-> p[2], k |-> p[3]]
    ELSE InlineCursor(data, 1)

\* where the loops start: the first permission_set triple, else the first
\* inline block, else nothing to do
StartCursor(data) == SetCursorFrom(data, SetPositions(data.permission_set))

\* the iteration after cur
AdvanceCursor(data, cur) ==
    IF cur.phase = "sets"
    THEN SetCursorFrom(data, { q \in SetPositions(data.permission_set) :
                                  LoopBefore(<<cur.i, cur.j, cur.k>>, q) })
    ELSE InlineCursor(data, cur.i + 1)

\* what the iteration at cur works on
CurItem(data, cur) ==
    IF cur.phase = "sets"
    THEN LET ps == data.permission_set[cur.i]
         IN [server_id |-> ps.server_ids[cur.j],
             name |-> ps.permissions[cur.k].name,
             pattern |-> ps.permissions[cur.k].pattern]
    ELSE LET pm == data.permissions[cur.i]
         IN [server_id |-> pm.server_id,
             name |-> pm.permission_name,
             pattern |-> pm.stack_pattern]

\* types.String.ValueString(): "" for null and unknown
ValueString(v) == IF v = Null \/ v = Unknown THEN "" ELSE v

\* the pattern taken from the plan without the default
RoleStackPatternNoDefault(v) == ValueString(v)

\* stackPattern := "*"; if !IsNull() && !IsUnknown() { stackPattern = ValueString() }
RoleStackPattern(v) == IF v # Null /\ v # Unknown THEN v ELSE "*"

\* stackPattern := "*"; if !IsNull() { stackPattern = ValueString() }
RolePermissionStackPattern(v) == IF v # Null THEN ValueString(v) ELSE "*"

\* the first rule of perms matching (server, permission, pattern), 0 when none
FirstMatch(perms, serverID, permissionID, stackPattern) ==
    LET hit(n) == /\ perms[n].server_id = serverID
                  /\ perms[n].permission_id = permissionID
                  /\ perms[n].stack_pattern = stackPattern
    IN IF \E n \in 1..Len(perms) : hit(n)
       THEN perms[CHOOSE n \in 1..Len(perms) :
                    hit(n) /\ \A m \in 1..(n - 1) : ~hit(m)].id
       ELSE 0

\* ------------------------------------------------------- handler records

\* one client call: its arguments, whether it returned no error, and the ids
\* it returned
CallRet(name, args, ok, ret) == [call |-> name, args |-> args, ok |-> ok, ret |-> ret]

Call(name, args, ok) == CallRet(name, args, ok, << >>)

\* the ids of a list of rules, in order
Ids(perms) == [n \in 1..Len(perms) |-> perms[n].id]

Idle ==
    [op |-> "none", pc |-> "done", plan |-> NoState, data |-> NoState, state |-> NoState,
     roleID |-> 0, existing |-> << >>, di |-> 0, cur |-> EndCursor,
     permID |-> 0, diag |-> "", calls |-> << >>, pre |-> << >>, importID |-> << >>]

\* an error diagnostic without the return
FailedNoReturn(h, call, summary) ==
    [h EXCEPT !.diag = summary, !.calls = Append(@, call)]

\* the handler adds an error diagnostic and returns
Failed(h, call, summary) ==
    [h EXCEPT !.pc = "done", !.diag = summary, !.calls = Append(@, call)]

\* where a reconcile loop goes after an iteration
LoopPc(cur) == IF cur.phase = "end" THEN "done" ELSE "GetPermissionByName"

RemoteUnchanged == UNCHANGED <<roles, rules, nextRole, nextRule>>
RolePermissionUnchanged == UNCHANGED <<rpState, ph>>
RoleUnchanged == UNCHANGED <<roleState, rh>>

\* ------------------------------------------------------ berth_role: Create

\* State.Set moved to right after CreateRole
StateAfterCreateRoleEarly(data, cur, state) == data

\* the state when CreateRole has returned: data once the handler reaches
\* State.Set, which without blocks is at once
StateAfterCreateRole(data, cur, state) == IF cur.phase = "end" THEN data ELSE state

\* Create up to and including the CreateRole call
RoleCreate(plan) ==
    /\ rh = Idle /\ roleState = NoState /\ ops < MaxOps
    /\ ops' = ops + 1
    /\ \E ok \in BOOLEAN :
        LET h0 == [Idle EXCEPT !.op = "Create", !.plan = plan, !.data = plan]
            call == Call("CreateRole", <<plan.name, ValueString(plan.description)>>, ok)
        IN IF ok
           THEN LET data == [plan EXCEPT !.id = FormatUint(nextRole)]
                    cur == StartCursor(data)
                IN /\ roles' = roles \cup {[id |-> nextRole, name |-> plan.name,
                                           description |-> ValueString(plan.description)]}
                   /\ nextRole' = nextRole + 1
                   /\ rh' = [h0 EXCEPT !.data = data, !.roleID = nextRole, !.cur = cur,
                                       !.calls = <<call>>, !.pc = LoopPc(cur)]
                   /\ roleState' = StateAfterCreateRole(data, cur, roleState)
           ELSE /\ rh' = Failed(h0, call, "Failed to create role")
                /\ UNCHANGED <<roles, nextRole, roleState>>
    /\ UNCHANGED <<rules, nextRule>>
    /\ RolePermissionUnchanged

\* ------------------------------- berth_role: the create loops (Create, Update)

\* r.client.GetPermissionByName(name) of the iteration at rh.cur
RoleGetPermission(op) ==
    /\ rh.op = op /\ rh.pc = "GetPermissionByName"
    /\ \E ok \in BOOLEAN :
        LET item == CurItem(rh.data, rh.cur)
            id == PermissionIdByName(ValueString(item.name))
            found == ok /\ id # 0
            call == Call("GetPermissionByName", <<ValueString(item.name)>>, found)
        IN rh' = IF found
                 THEN [rh EXCEPT !.permID = id, !.pc = "CreateRolePermission",
                                 !.calls = Append(@, call)]
                 ELSE Failed(rh, call, "Failed to find permission")
    /\ UNCHANGED <<roleState, ops>>
    /\ RemoteUnchanged
    /\ RolePermissionUnchanged

\* r.client.CreateRolePermission(roleID, serverID, permission.ID, stackPattern)
RoleCreateRolePermission(op) ==
    /\ rh.op = op /\ rh.pc = "CreateRolePermission"
    /\ \E ok \in BOOLEAN :
        LET item == CurItem(rh.data, rh.cur)
            stackPattern == RoleStackPattern(item.pattern)
            done == ok /\ RoleExists(rh.roleID)
            call == Call("CreateRolePermission",
                         <<rh.roleID, item.server_id, rh.permID, stackPattern>>, done)
            next == AdvanceCursor(rh.data, rh.cur)
        IN IF done
           THEN /\ rules' = AppendRule(rules, nextRule, rh.roleID, item.server_id,
                                       rh.permID, stackPattern)
                /\ nextRule' = nextRule + 1
                /\ IF rh.cur.phase = "sets"
                   THEN /\ rh' = [rh EXCEPT !.cur = next, !.pc = LoopPc(next),
                                            !.calls = Append(@, call)]
                        /\ roleState' = IF next.phase = "end" THEN rh.data ELSE roleState
                   ELSE /\ rh' = [rh EXCEPT !.pc = "ListCreated",
                                            !.calls = Append(@, call)]
                        /\ UNCHANGED roleState
           ELSE /\ rh' = Failed(rh, call,
                                IF rh.cur.phase = "sets"
                                THEN "Failed to create role permission from permission set"
                                ELSE "Failed to create role permission")
                /\ UNCHANGED <<rules, nextRule, roleState>>
    /\ UNCHANGED <<roles, nextRole, ops>>
    /\ RolePermissionUnchanged

\* data.Permissions[i] after the search of perms for the created rule
FoundInline(perm, perms, serverID, permissionID, stackPattern) ==
    LET id == FirstMatch(perms, serverID, permissionID, stackPattern)
    IN IF id # 0
       THEN [perm EXCEPT !.id = FormatUint(id), !.stack_pattern = stackPattern]
       ELSE perm

\* r.client.ListRolePermissions(roleID) after an inline create, and the search
RoleListCreated(op) ==
    /\ rh.op = op /\ rh.pc = "ListCreated"
    /\ \E ok \in BOOLEAN :
        LET item == CurItem(rh.data, rh.cur)
            stackPattern == RoleStackPattern(item.pattern)
            done == ok /\ RoleExists(rh.roleID)
            call == Call("ListRolePermissions", <<rh.roleID>>, done)
            data == [rh.data EXCEPT !.permissions[rh.cur.i] =
                        FoundInline(@, RulesOf(rules, rh.roleID), item.server_id,
                                    rh.permID, stackPattern)]
            next == AdvanceCursor(data, rh.cur)
        IN IF done
           THEN /\ rh' = [rh EXCEPT !.data = data, !.cur = next, !.pc = LoopPc(next),
                                    !.calls = Append(@, call)]
                /\ roleState' = IF next.phase = "end" THEN data ELSE roleState
           ELSE /\ rh' = Failed(rh, call, "Failed to read created permission")
                /\ UNCHANGED roleState
    /\ UNCHANGED ops
    /\ RemoteUnchanged
    /\ RolePermissionUnchanged

CreateGetPermission == RoleGetPermission("Create")
CreateCreateRolePermission == RoleCreateRolePermission("Create")
CreateListCreated == RoleListCreated("Create")
UpdateGetPermission == RoleGetPermission("Update")
UpdateCreateRolePermission == RoleCreateRolePermission("Update")
UpdateListCreated == RoleListCreated("Update")

\* ------------------------------------------------------ berth_role: Update

\* a reconcile phase entered whatever the plan and the state hold
ReconcilesAlways(data, state) == TRUE

\* len(data.Permissions) > 0 || len(state.Permissions) > 0 || ... (the guard
\* of the reconcile phase)
Reconciles(data, state) ==
    \/ Len(data.permissions) > 0
    \/ Len(state.permissions) > 0
    \/ Len(data.permission_set) > 0
    \/ Len(state.permission_set) > 0

\* State.Set moved before the reconcile phase
StateAfterUpdateRoleEarly(plan, state) == plan

\* the state when UpdateRole has returned: the plan once the handler reaches
\* State.Set, which without a reconcile phase is at once
StateAfterUpdateRole(plan, state) == IF Reconciles(plan, state) THEN state ELSE plan

\* Update up to and including the UpdateRole call
RoleUpdate(plan) ==
    /\ rh = Idle /\ roleState # NoState /\ ops < MaxOps
    /\ ops' = ops + 1
    /\ LET id == ParseUint(plan.id)
           h0 == [Idle EXCEPT !.op = "Update", !.plan = plan, !.data = plan,
                              !.state = roleState,
                              !.pre = IF id = -1 THEN << >> ELSE RulesOf(rules, id)]
       IN IF id = -1
          THEN /\ rh' = [h0 EXCEPT !.diag = "Invalid role ID"]
               /\ UNCHANGED <<roles, roleState>>
          ELSE \E ok \in BOOLEAN :
               LET done == ok /\ RoleExists(id)
                   call == Call("UpdateRole",
                                <<id, plan.name, ValueString(plan.description)>>, done)
               IN IF done
                  THEN /\ roles' = (roles \ {TheRole(id)}) \cup
                                   {[id |-> id, name |-> plan.name,
                                     description |-> ValueString(plan.description)]}
                       /\ rh' = [h0 EXCEPT !.roleID = id, !.calls = <<call>>,
                                           !.pc = IF Reconciles(plan, roleState)
                                                  THEN "ListExisting" ELSE "done"]
                       /\ roleState' = StateAfterUpdateRole(plan, roleState)
                  ELSE /\ rh' = Failed(h0, call, "Failed to update role")
                       /\ UNCHANGED <<roles, roleState>>
    /\ UNCHANGED <<rules, nextRole, nextRule>>
    /\ RolePermissionUnchanged

\* existingPerms, _, err := r.client.ListRolePermissions(roleID)
UpdateListExisting ==
    /\ rh.op = "Update" /\ rh.pc = "ListExisting"
    /\ \E ok \in BOOLEAN :
        LET done == ok /\ RoleExists(rh.roleID)
            existing == RulesOf(rules, rh.roleID)
            call == CallRet("ListRolePermissions", <<rh.roleID>>, done,
                            IF done THEN Ids(existing) ELSE << >>)
            cur == StartCursor(rh.data)
        IN IF done
           THEN IF Len(existing) > 0
                THEN /\ rh' = [rh EXCEPT !.existing = existing, !.di = 1,
                                         !.pc = "DeleteRolePermission",
                                         !.calls = Append(@, call)]
                     /\ UNCHANGED roleState
                ELSE /\ rh' = [rh EXCEPT !.existing = existing, !.cur = cur,
                                         !.pc = LoopPc(cur), !.calls = Append(@, call)]
                     /\ roleState' = IF cur.phase = "end" THEN rh.data ELSE roleState
           ELSE /\ rh' = Failed(rh, call, "Failed to read existing permissions")
                /\ UNCHANGED roleState
    /\ UNCHANGED ops
    /\ RemoteUnchanged
    /\ RolePermissionUnchanged

\* a delete loop that stops one rule early
MoreToDeleteButLast(di, existing) == di < Len(existing) - 1

\* a delete loop that leaves after its first rule
MoreToDeleteFirstOnly(di, existing) == FALSE

\* for _, perm := range existingPerms: whether a rule follows existingPerms[di]
MoreToDelete(di, existing) == di < Len(existing)

\* a delete that names the permission of the rule instead of the rule
DeleteTargetPermissionId(perm) == perm.permission_id

\* the id DeleteRolePermission is given for a listed rule: perm.ID
DeleteTarget(perm) == perm.id

\* r.client.DeleteRolePermission(roleID, perm.ID) for perm = existingPerms[di]
UpdateDeletePermission ==
    /\ rh.op = "Update" /\ rh.pc = "DeleteRolePermission"
    /\ \E ok \in BOOLEAN :
        LET perm == rh.existing[rh.di]
            call == Call("DeleteRolePermission", <<rh.roleID, DeleteTarget(perm)>>, ok)
            cur == StartCursor(rh.data)
        IN IF ok
           THEN /\ rules' = RemoveRule(rules, rh.roleID, DeleteTarget(perm))
                /\ IF MoreToDelete(rh.di, rh.existing)
                   THEN /\ rh' = [rh EXCEPT !.di = @ + 1, !.calls = Append(@, call)]
                        /\ UNCHANGED roleState
                   ELSE /\ rh' = [rh EXCEPT !.di = @ + 1, !.cur = cur, !.pc = LoopPc(cur),
                                            !.calls = Append(@, call)]
                        /\ roleState' = IF cur.phase = "end" THEN rh.data ELSE roleState
           ELSE /\ rh' = Failed(rh, call, "Failed to delete permission")
                /\ UNCHANGED <<rules, roleState>>
    /\ UNCHANGED <<roles, nextRole, nextRule, ops>>
    /\ RolePermissionUnchanged

\* ------------------------------------------------ berth_role: Read, Delete

\* Read of the state value data, up to and including the GetRole call; prior
\* is the state Terraform holds (none during an import)
ReadFrom(data, prior) ==
    LET id == ParseUint(data.id)
        h0 == [Idle EXCEPT !.op = "Read", !.data = data, !.state = prior]
    IN IF id = -1
       THEN /\ rh' = [h0 EXCEPT !.diag = "Invalid role ID"]
            /\ UNCHANGED roleState
       ELSE \E ok \in BOOLEAN :
            LET done == ok /\ RoleExists(id)
                call == Call("GetRole", <<id>>, done)
                role == TheRole(id)
                read == [data EXCEPT !.name = role.name,
                                     !.description = role.description]
            IN IF done
               THEN IF Len(data.permissions) > 0
                    THEN /\ rh' = [h0 EXCEPT !.data = read, !.roleID = id,
                                             !.pc = "ReadListPermissions",
                                             !.calls = <<call>>]
                         /\ UNCHANGED roleState
                    ELSE /\ rh' = [h0 EXCEPT !.data = read, !.roleID = id,
                                             !.calls = <<call>>]
                         /\ roleState' = read
               ELSE /\ rh' = Failed(h0, call, "Failed to read role")
                    /\ UNCHANGED roleState

RoleRead ==
    /\ rh = Idle /\ roleState # NoState /\ ops < MaxOps
    /\ ops' = ops + 1
    /\ ReadFrom(roleState, roleState)
    /\ RemoteUnchanged
    /\ RolePermissionUnchanged

\* ImportStatePassthroughID sets only id; Terraform then calls Read, and keeps
\* the resource only if Read succeeds
RoleImportState(id) ==
    /\ rh = Idle /\ roleState = NoState
    /\ ReadFrom([id |-> id, name |-> Null, description |-> Null,
                 permissions |-> << >>, permission_set |-> << >>], NoState)
    /\ UNCHANGED ops
    /\ RemoteUnchanged
    /\ RolePermissionUnchanged

\* updatedPerms: one RolePermissionInline per rule the server lists
UpdatedPerms(perms) ==
    [n \in 1..Len(perms) |->
        [id |-> FormatUint(perms[n].id),
         server_id |-> perms[n].server_id,
         permission_name |-> PermissionNameById(perms[n].permission_id),
         stack_pattern |-> perms[n].stack_pattern]]

\* perms, allPermissions, err := r.client.ListRolePermissions(uint(id)) of Read
ReadListPermissions ==
    /\ rh.op = "Read" /\ rh.pc = "ReadListPermissions"
    /\ \E ok \in BOOLEAN :
        LET done == ok /\ RoleExists(rh.roleID)
            call == Call("ListRolePermissions", <<rh.roleID>>, done)
            data == [rh.data EXCEPT !.permissions = UpdatedPerms(RulesOf(rules, rh.roleID))]
        IN IF done
           THEN /\ rh' = [rh EXCEPT !.data = data, !.pc = "done",
                                    !.calls = Append(@, call)]
                /\ roleState' = data
           ELSE /\ rh' = Failed(rh, call, "Failed to read role permissions")
                /\ UNCHANGED roleState
    /\ UNCHANGED ops
    /\ RemoteUnchanged
    /\ RolePermissionUnchanged

\* Delete: the DeleteRole call; the framework drops the state when the handler
\* returns without an error
RoleDelete ==
    /\ rh = Idle /\ roleState # NoState /\ ops < MaxOps
    /\ ops' = ops + 1
    /\ LET id == ParseUint(roleState.id)
           h0 == [Idle EXCEPT !.op = "Delete", !.data = roleState, !.state = roleState]
       IN IF id = -1
          THEN /\ rh' = [h0 EXCEPT !.diag = "Invalid role ID"]
               /\ UNCHANGED <<roles, rules, roleState>>
          ELSE \E ok \in BOOLEAN :
               LET done == ok /\ RoleExists(id)
                   call == Call("DeleteRole", <<id>>, done)
               IN IF done
                  THEN /\ roles' = roles \ {TheRole(id)}
                       /\ rules' = SelectSeq(rules, LAMBDA p : p.role # id)
                       /\ rh' = [h0 EXCEPT !.roleID = id, !.calls = <<call>>]
                       /\ roleState' = NoState
                  ELSE /\ rh' = Failed(h0, call, "Failed to delete role")
                       /\ UNCHANGED <<roles, rules, roleState>>
    /\ UNCHANGED <<nextRole, nextRule>>
    /\ RolePermissionUnchanged

\* ----------------------------------------------------- berth_role_permission

\* Create up to and including the GetPermissionByName call
RolePermissionCreate(plan) ==
    /\ ph = Idle /\ rpState = NoState /\ ops < MaxOps
    /\ ops' = ops + 1
    /\ \E ok \in BOOLEAN :
        LET h0 == [Idle EXCEPT !.op = "Create", !.plan = plan, !.data = plan,
                              !.roleID = plan.role_id]
            id == PermissionIdByName(ValueString(plan.permission_name))
            found == ok /\ id # 0
            call == Call("GetPermissionByName", <<ValueString(plan.permission_name)>>, found)
        IN ph' = IF found
                 THEN [h0 EXCEPT !.permID = id, !.pc = "CreateRolePermission",
                                 !.calls = <<call>>]
                 ELSE Failed(h0, call, "Failed to find permission")
    /\ UNCHANGED rpState
    /\ RemoteUnchanged
    /\ RoleUnchanged

\* perm, err := r.client.CreateRolePermission(role_id, server_id, permission.ID, stackPattern)
RolePermissionCreateRolePermission ==
    /\ ph.op = "Create" /\ ph.pc = "CreateRolePermission"
    /\ \E ok \in BOOLEAN :
        LET stackPattern == RolePermissionStackPattern(ph.data.stack_pattern)
            done == ok /\ RoleExists(ph.roleID)
            call == Call("CreateRolePermission",
                         <<ph.roleID, ph.data.server_id, ph.permID, stackPattern>>, done)
        IN IF done
           THEN /\ rules' = AppendRule(rules, nextRule, ph.roleID, ph.data.server_id,
                                       ph.permID, stackPattern)
                /\ nextRule' = nextRule + 1
                /\ ph' = [ph EXCEPT !.pc = "ListCreated", !.calls = Append(@, call)]
           ELSE /\ ph' = Failed(ph, call, "Failed to create role permission")
                /\ UNCHANGED <<rules, nextRule>>
    /\ UNCHANGED <<roles, nextRole, rpState, ops>>
    /\ RoleUnchanged

\* perms, _, err := r.client.ListRolePermissions(role_id), the search for the
\* created rule, and State.Set
RolePermissionListCreated ==
    /\ ph.op = "Create" /\ ph.pc = "ListCreated"
    /\ \E ok \in BOOLEAN :
        LET stackPattern == RolePermissionStackPattern(ph.data.stack_pattern)
            done == ok /\ RoleExists(ph.roleID)
            call == Call("ListRolePermissions", <<ph.roleID>>, done)
            foundID == FirstMatch(RulesOf(rules, ph.roleID), ph.data.server_id,
                                  ph.permID, stackPattern)
            data == [ph.data EXCEPT !.id = FormatUint(foundID),
                                    !.stack_pattern = stackPattern]
        IN IF done
           THEN IF foundID = 0
                THEN /\ ph' = [ph EXCEPT !.pc = "done",
                                         !.diag = "Failed to find created permission",
                                         !.calls = Append(@, call)]
                     /\ UNCHANGED rpState
                ELSE /\ ph' = [ph EXCEPT !.data = data, !.pc = "done",
                                         !.calls = Append(@, call)]
                     /\ rpState' = data
           ELSE /\ ph' = Failed(ph, call, "Failed to read created permission")
                /\ UNCHANGED rpState
    /\ UNCHANGED ops
    /\ RemoteUnchanged
    /\ RoleUnchanged

\* Read: GetRolePermission (a ListRolePermissions and the search by id)
RolePermissionRead ==
    /\ ph = Idle /\ rpState # NoState /\ ops < MaxOps
    /\ ops' = ops + 1
    /\ LET id == ParseUint(rpState.id)
           h0 == [Idle EXCEPT !.op = "Read", !.data = rpState, !.state = rpState,
                              !.roleID = rpState.role_id]
       IN IF id = -1
          THEN /\ ph' = [h0 EXCEPT !.diag = "Invalid permission ID"]
               /\ UNCHANGED rpState
          ELSE \E ok \in BOOLEAN :
               LET perms == RulesOf(rules, rpState.role_id)
                   found == /\ ok /\ RoleExists(rpState.role_id)
                            /\ \E n \in 1..Len(perms) : perms[n].id = id
                   call == Call("GetRolePermission", <<rpState.role_id, id>>, found)
                   perm == perms[CHOOSE n \in 1..Len(perms) : perms[n].id = id]
                   data == [rpState EXCEPT !.server_id = perm.server_id,
                                           !.stack_pattern = perm.stack_pattern]
               IN IF found
                  THEN /\ ph' = [h0 EXCEPT !.data = data, !.calls = <<call>>]
                       /\ rpState' = data
                  ELSE /\ ph' = Failed(h0, call, "Failed to read role permission")
                       /\ UNCHANGED rpState
    /\ RemoteUnchanged
    /\ RoleUnchanged

\* an Update that takes the plan as the new state
RolePermissionUpdateInPlace(plan) ==
    /\ ph = Idle /\ rpState # NoState /\ ops < MaxOps
    /\ ops' = ops + 1
    /\ ph' = [Idle EXCEPT !.op = "Update", !.plan = plan, !.data = plan, !.state = rpState,
                          !.roleID = plan.role_id]
    /\ rpState' = [plan EXCEPT !.id = rpState.id]
    /\ RemoteUnchanged
    /\ RoleUnchanged

\* Update: an error diagnostic and nothing else
RolePermissionUpdate(plan) ==
    /\ ph = Idle /\ rpState # NoState /\ ops < MaxOps
    /\ ops' = ops + 1
    /\ ph' = [Idle EXCEPT !.op = "Update", !.plan = plan, !.data = plan, !.state = rpState,
                          !.roleID = plan.role_id, !.diag = "Update not supported"]
    /\ UNCHANGED rpState
    /\ RemoteUnchanged
    /\ RoleUnchanged

\* Delete: the DeleteRolePermission call
RolePermissionDelete ==
    /\ ph = Idle /\ rpState # NoState /\ ops < MaxOps
    /\ ops' = ops + 1
    /\ LET id == ParseUint(rpState.id)
           h0 == [Idle EXCEPT !.op = "Delete", !.data = rpState, !.state = rpState,
                              !.roleID = rpState.role_id]
       IN IF id = -1
          THEN /\ ph' = [h0 EXCEPT !.diag = "Invalid permission ID"]
               /\ UNCHANGED <<rules, rpState>>
          ELSE \E ok \in BOOLEAN :
               LET call == Call("DeleteRolePermission", <<rpState.role_id, id>>, ok)
               IN IF ok
                  THEN /\ rules' = RemoveRule(rules, rpState.role_id, id)
                       /\ ph' = [h0 EXCEPT !.calls = <<call>>]
                       /\ rpState' = NoState
                  ELSE /\ ph' = Failed(h0, call, "Failed to delete role permission")
                       /\ UNCHANGED <<rules, rpState>>
    /\ UNCHANGED <<roles, nextRole, nextRule>>
    /\ RoleUnchanged

\* ImportState: the id 'role_id:permission_id' split and parsed into the
\* response state; Terraform then calls Read on that state
RolePermissionImportState(id) ==
    /\ ph = Idle /\ rpState = NoState /\ ops < MaxOps
    /\ ops' = ops + 1
    /\ LET parts == Split(id, ":")
           h0 == [Idle EXCEPT !.op = "ImportState", !.importID = id]
       IN IF Len(parts) # 2
          THEN ph' = [h0 EXCEPT !.diag = "Invalid import ID"]
          ELSE LET roleID == ParseInt(parts[1])
               IN IF roleID.err
                  THEN ph' = [h0 EXCEPT !.diag = "Invalid role ID"]
                  ELSE ph' = [h0 EXCEPT !.pc = "Read",
                                        !.data = [id |-> parts[2],
                                                  role_id |-> roleID.val,
                                                  server_id |-> Null,
                                                  permission_name |-> Null,
                                                  stack_pattern |-> Null]]
    /\ UNCHANGED rpState
    /\ RemoteUnchanged
    /\ RoleUnchanged

\* the Read that follows ImportState, on the imported state; Terraform keeps
\* the resource only if it succeeds. uint(role_id) of a negative role_id is
\* above every id the server hands out: no such role
RolePermissionImportRead ==
    /\ ph.op = "ImportState" /\ ph.pc = "Read"
    /\ LET id == ParseUint(ph.data.id)
           h0 == [ph EXCEPT !.op = "Read", !.pc = "done", !.roleID = ph.data.role_id]
       IN IF id = -1
          THEN /\ ph' = [h0 EXCEPT !.diag = "Invalid permission ID"]
               /\ UNCHANGED rpState
          ELSE \E ok \in BOOLEAN :
               LET perms == RulesOf(rules, ph.data.role_id)
                   found == /\ ok /\ ph.data.role_id >= 0 /\ RoleExists(ph.data.role_id)
                            /\ \E n \in 1..Len(perms) : perms[n].id = id
                   call == Call("GetRolePermission", <<ph.data.role_id, id>>, found)
                   perm == perms[CHOOSE n \in 1..Len(perms) : perms[n].id = id]
                   data == [ph.data EXCEPT !.server_id = perm.server_id,
                                           !.stack_pattern = perm.stack_pattern]
               IN IF found
                  THEN /\ ph' = [h0 EXCEPT !.data = data, !.calls = <<call>>]
                       /\ rpState' = data
                  ELSE /\ ph' = Failed(h0, call, "Failed to read role permission")
                       /\ UNCHANGED rpState
    /\ UNCHANGED ops
    /\ RemoteUnchanged
    /\ RoleUnchanged

\* ------------------------------------------------------------- the returns

\* the handler has returned: the framework takes its response
RoleReturn ==
    /\ rh.pc = "done" /\ rh # Idle
    /\ rh' = Idle
    /\ UNCHANGED <<roleState, ops>>
    /\ RemoteUnchanged
    /\ RolePermissionUnchanged

RolePermissionReturn ==
    /\ ph.pc = "done" /\ ph # Idle
    /\ ph' = Idle
    /\ UNCHANGED <<rpState, ops>>
    /\ RemoteUnchanged
    /\ RoleUnchanged

\* ------------------------------------------------------- the specifications

Init ==
    /\ roles = {[id |-> 1, name |-> "ops", description |-> "team"]}
    /\ rules \in InitRules
    /\ nextRole = 2
    /\ nextRule = Len(rules) + 1
    /\ roleState = NoState
    /\ rpState = NoState
    /\ rh = Idle
    /\ ph = Idle
    /\ ops = 0

\* the plans of an Update: the id is the state's (UseStateForUnknown)
UpdatePlans == IF roleState = NoState THEN {} ELSE RolePlans(roleState.id)

RoleStep ==
    \/ \E plan \in RolePlans(UnknownId) : RoleCreate(plan)
    \/ CreateGetPermission
    \/ CreateCreateRolePermission
    \/ CreateListCreated
    \/ \E plan \in UpdatePlans : RoleUpdate(plan)
    \/ UpdateListExisting
    \/ UpdateDeletePermission
    \/ UpdateGetPermission
    \/ UpdateCreateRolePermission
    \/ UpdateListCreated
    \/ RoleRead
    \/ ReadListPermissions
    \/ \E id \in ImportIds : RoleImportState(id)
    \/ RoleDelete
    \/ RoleReturn

RolePermissionStep ==
    \/ \E plan \in RolePermissionPlans : RolePermissionCreate(plan)
    \/ RolePermissionCreateRolePermission
    \/ RolePermissionListCreated
    \/ RolePermissionRead
    \/ \E plan \in RolePermissionPlans : RolePermissionUpdate(plan)
    \/ RolePermissionDelete
    \/ \E id \in RolePermissionImportIds : RolePermissionImportState(id)
    \/ RolePermissionImportRead
    \/ RolePermissionReturn

\* Terraform walks the resource graph in parallel: the calls of the two
\* resources' handlers interleave.
Next == RoleStep \/ RolePermissionStep

Spec == Init /\ [][Next]_vars

\* One handler at a time (terraform apply -parallelism=1): a handler starts
\* only after the other one has returned.
OneAtATime == rh = Idle \/ ph = Idle

NextSeq ==
    \/ (\E plan \in RolePlans(UnknownId) : RoleCreate(plan)) /\ OneAtATime'
    \/ CreateGetPermission /\ OneAtATime'
    \/ CreateCreateRolePermission /\ OneAtATime'
    \/ CreateListCreated /\ OneAtATime'
    \/ (\E plan \in UpdatePlans : RoleUpdate(plan)) /\ OneAtATime'
    \/ UpdateListExisting /\ OneAtATime'
    \/ UpdateDeletePermission /\ OneAtATime'
    \/ UpdateGetPermission /\ OneAtATime'
    \/ UpdateCreateRolePermission /\ OneAtATime'
    \/ UpdateListCreated /\ OneAtATime'
    \/ RoleRead /\ OneAtATime'
    \/ ReadListPermissions /\ OneAtATime'
    \/ (\E id \in ImportIds : RoleImportState(id)) /\ OneAtATime'
    \/ RoleDelete /\ OneAtATime'
    \/ RoleReturn /\ OneAtATime'
    \/ (\E plan \in RolePermissionPlans : RolePermissionCreate(plan)) /\ OneAtATime'
    \/ RolePermissionCreateRolePermission /\ OneAtATime'
    \/ RolePermissionListCreated /\ OneAtATime'
    \/ RolePermissionRead /\ OneAtATime'
    \/ (\E plan \in RolePermissionPlans : RolePermissionUpdate(plan)) /\ OneAtATime'
    \/ RolePermissionDelete /\ OneAtATime'
    \/ (\E id \in RolePermissionImportIds : RolePermissionImportState(id)) /\ OneAtATime'
    \/ RolePermissionImportRead /\ OneAtATime'
    \/ RolePermissionReturn /\ OneAtATime'

SpecSeq == Init /\ [][NextSeq]_vars

\* ======================================================== the properties

\* the stack pattern a configuration asks for: '*' when it gives none
AskedPattern(v) == IF v = Null \/ v = Unknown THEN "*" ELSE v

Rule(serverID, permissionID, stackPattern) ==
    [server_id |-> serverID, permission_id |-> permissionID,
     stack_pattern |-> stackPattern]

\* how many times the permission_set blocks i..Len of plan ask for rule t:
\* each block asks for every (server, permission) pair once
RECURSIVE SetCount(_, _, _)
SetCount(plan, t, i) ==
    IF i > Len(plan.permission_set) THEN 0
    ELSE LET ps == plan.permission_set[i]
             servers == { j \in 1..Len(ps.server_ids) : ps.server_ids[j] = t.server_id }
             perms == { k \in 1..Len(ps.permissions) :
                          /\ PermissionIdByName(ps.permissions[k].name) = t.permission_id
                          /\ AskedPattern(ps.permissions[k].pattern) = t.stack_pattern }
         IN Cardinality(servers) * Cardinality(perms) + SetCount(plan, t, i + 1)

\* how many times the inline permissions blocks of plan ask for rule t
InlineCount(plan, t) ==
    Cardinality({ m \in 1..Len(plan.permissions) :
        /\ plan.permissions[m].server_id = t.server_id
        /\ PermissionIdByName(plan.permissions[m].permission_name) = t.permission_id
        /\ AskedPattern(plan.permissions[m].stack_pattern) = t.stack_pattern })

PlanCount(plan, t) == SetCount(plan, t, 1) + InlineCount(plan, t)

\* how many rules equal to t the remote role holds
RemoteCount(roleID, t) ==
    Cardinality({ n \in 1..Len(rules) :
        /\ rules[n].role = roleID
        /\ Rule(rules[n].server_id, rules[n].permission_id, rules[n].stack_pattern) = t })

RemoteRules(roleID) ==
    { Rule(rules[n].server_id, rules[n].permission_id, rules[n].stack_pattern) :
        n \in { m \in 1..Len(rules) : rules[m].role = roleID } }

PlanRules(plan) ==
    UNION { { Rule(plan.permission_set[i].server_ids[j],
                   PermissionIdByName(plan.permission_set[i].permissions[k].name),
                   AskedPattern(plan.permission_set[i].permissions[k].pattern)) :
                j \in 1..Len(plan.permission_set[i].server_ids),
                k \in 1..Len(plan.permission_set[i].permissions) } :
            i \in 1..Len(plan.permission_set) }
    \cup
    { Rule(plan.permissions[m].server_id,
           PermissionIdByName(plan.permissions[m].permission_name),
           AskedPattern(plan.permissions[m].stack_pattern)) :
        m \in 1..Len(plan.permissions) }

\* the remote role holds the rules the plan asks for, each as often, and no other
RemoteIsPlan(roleID, plan) ==
    \A t \in RemoteRules(roleID) \cup PlanRules(plan) :
        RemoteCount(roleID, t) = PlanCount(plan, t)

AllCallsOk(h) == \A n \in 1..Len(h.calls) : h.calls[n].ok

Succeeded(h, op) == h.op = op /\ h.pc = "done" /\ h.diag = "" /\ AllCallsOk(h)

HasBlocks(m) == Len(m.permissions) > 0 \/ Len(m.permission_set) > 0

\* C1: after a berth_role Update in which every call succeeded and the plan or
\* the prior state has a permissions or permission_set block, the remote role
\* holds exactly the rules the plan expands to, whatever it held before.
C1_UpdateConverges ==
    (Succeeded(rh, "Update") /\ (HasBlocks(rh.plan) \/ HasBlocks(rh.state)))
        => RemoteIsPlan(rh.roleID, rh.plan)

\* an Update over a remote that held a rule the plan does not ask for
C1_Witness ==
    /\ Succeeded(rh, "Update")
    /\ HasBlocks(rh.plan)
    /\ \E n \in 1..Len(rh.pre) :
          Rule(rh.pre[n].server_id, rh.pre[n].permission_id, rh.pre[n].stack_pattern)
              \notin PlanRules(rh.plan)
    /\ Len(RulesOf(rules, rh.roleID)) >= 4

\* the rules asked for by all blocks of the plan together
TotalAsked(plan) ==
    LET sets == plan.permission_set
        perSet == [i \in 1..Len(sets) |->
                      Len(sets[i].server_ids) * Len(sets[i].permissions)]
        sum[i \in 0..Len(sets)] == IF i = 0 THEN 0 ELSE sum[i - 1] + perSet[i]
    IN sum[Len(sets)] + Len(plan.permissions)

\* C2: after a berth_role Create in which every call succeeded, the new role
\* holds one rule per (server, permission) pair of every permission_set block
\* and one per inline permissions block, and no other rule.
C2_CreateExpandsSets ==
    Succeeded(rh, "Create")
        => /\ RemoteIsPlan(rh.roleID, rh.plan)
           /\ Len(RulesOf(rules, rh.roleID)) = TotalAsked(rh.plan)

\* a Create of a permission_set with two servers and two permissions
C2_Witness ==
    /\ Succeeded(rh, "Create")
    /\ \E i \in 1..Len(rh.plan.permission_set) :
          /\ Len(rh.plan.permission_set[i].server_ids) = 2
          /\ Len(rh.plan.permission_set[i].permissions) = 2
    /\ Len(RulesOf(rules, rh.roleID)) = 4

\* the positions of the calls named name in a handler's log
CallsNamed(h, name) == { n \in 1..Len(h.calls) : h.calls[n].call = name }

\* the calls named name that returned no error, in order
OkCalls(h, name) == SelectSeq(h.calls, LAMBDA c : c.call = name /\ c.ok)

\* C3: within one Update every DeleteRolePermission call precedes every
\* CreateRolePermission call, the list the deletes work from is the one
\* ListRolePermissions call right after UpdateRole, and once the create phase
\* has begun the deletes made are those of every rule that call returned.
C3_DeleteAllThenRecreate ==
    rh.op = "Update" =>
        LET dels == CallsNamed(rh, "DeleteRolePermission")
            cres == CallsNamed(rh, "CreateRolePermission")
            begun == \/ CallsNamed(rh, "GetPermissionByName") # {}
                     \/ Succeeded(rh, "Update") /\ Len(rh.calls) >= 2
            deleted == OkCalls(rh, "DeleteRolePermission")
        IN /\ \A d \in dels, c \in cres : d < c
           /\ dels # {} =>
                /\ rh.calls[2].call = "ListRolePermissions"
                /\ \A d \in dels : \A n \in 3..d : n \in dels
           /\ begun =>
                /\ rh.calls[2].call = "ListRolePermissions" /\ rh.calls[2].ok
                /\ [n \in 1..Len(deleted) |-> deleted[n].args[2]] = rh.calls[2].ret

\* an Update that deleted two listed rules and then created one
C3_Witness ==
    /\ rh.op = "Update"
    /\ Len(OkCalls(rh, "DeleteRolePermission")) >= 2
    /\ Len(OkCalls(rh, "CreateRolePermission")) >= 1

\* the (server, permission, pattern) of each rule of a list, in order
RulesIn(perms) ==
    [n \in 1..Len(perms) |->
        Rule(perms[n].server_id, perms[n].permission_id, perms[n].stack_pattern)]

\* the rules the CreateRolePermission calls of a handler that returned no
\* error asked for, in order
CreatedBy(h) ==
    LET made == OkCalls(h, "CreateRolePermission")
    IN [n \in 1..Len(made) |-> Rule(made[n].args[2], made[n].args[3], made[n].args[4])]

\* the ids the DeleteRolePermission calls of a handler that returned no error named
DeletedBy(h) ==
    LET gone == OkCalls(h, "DeleteRolePermission")
    IN { gone[n].args[2] : n \in 1..Len(gone) }

\* a handler that ended on a failed call after its first call succeeded
FailedMidway(h, op) ==
    /\ h.op = op /\ h.pc = "done"
    /\ Len(h.calls) >= 2
    /\ h.calls[1].ok
    /\ ~h.calls[Len(h.calls)].ok

\* C4: an Update that fails after UpdateRole succeeded is not rolled back: the
\* failed call is its last call, it made no compensating call, the remote role
\* has the plan's name and description, the remote rules are those present
\* before less the ones deleted plus the ones created so far, and the
\* Terraform state is the prior state.
C4_UpdateFailureNotRolledBack ==
    FailedMidway(rh, "Update") =>
        /\ rh.diag # ""
        /\ \A n \in 1..(Len(rh.calls) - 1) : rh.calls[n].ok
        /\ CallsNamed(rh, "UpdateRole") = {1}
        /\ CallsNamed(rh, "DeleteRole") = {}
        /\ \A d \in CallsNamed(rh, "DeleteRolePermission"),
              c \in CallsNamed(rh, "CreateRolePermission") : d < c
        /\ \E r \in roles : /\ r.id = rh.roleID
                            /\ r.name = rh.plan.name
                            /\ r.description = rh.plan.description
        /\ RulesIn(RulesOf(rules, rh.roleID))
              = RulesIn(SelectSeq(rh.pre, LAMBDA p : p.id \notin DeletedBy(rh)))
                    \o CreatedBy(rh)
        /\ roleState = rh.state

\* an Update that renamed the role, deleted a rule, created one and then failed
C4_Witness ==
    /\ FailedMidway(rh, "Update")
    /\ DeletedBy(rh) # {}
    /\ Len(CreatedBy(rh)) >= 1
    /\ rh.state.name # rh.plan.name
    /\ \E n \in 1..Len(rh.pre) : rh.pre[n].id \notin { p.id : p \in { rules[m] : m \in 1..Len(rules) } }
    /\ ~RemoteIsPlan(rh.roleID, rh.plan)

\* C5: a Create that fails after CreateRole succeeded leaves an orphan: it
\* makes no DeleteRole or DeleteRolePermission call, the role and the rules
\* created so far stay on the remote, and no Terraform state is written.
C5_CreateFailureLeavesOrphan ==
    FailedMidway(rh, "Create") =>
        /\ rh.diag # ""
        /\ \A n \in 1..(Len(rh.calls) - 1) : rh.calls[n].ok
        /\ CallsNamed(rh, "DeleteRole") = {}
        /\ CallsNamed(rh, "DeleteRolePermission") = {}
        /\ \E r \in roles : r.id = rh.roleID /\ r.name = rh.plan.name
        /\ RulesIn(RulesOf(rules, rh.roleID)) = CreatedBy(rh)
        /\ roleState = NoState

\* a Create that made the role and a rule and then met an unknown permission name
C5_Witness ==
    /\ FailedMidway(rh, "Create")
    /\ Len(RulesOf(rules, rh.roleID)) >= 1
    /\ rh.calls[Len(rh.calls)].call = "GetPermissionByName"
    /\ rh.calls[Len(rh.calls)].args = <<"no.such">>
    /\ roleState = NoState

\* The first failed call of a handler is its last call: the handler has
\* returned with an error diagnostic and the state is the one from before.
ErrorOnlyPropagated(h, tfState) ==
    \A n \in 1..Len(h.calls) :
        ~h.calls[n].ok =>
            /\ n = Len(h.calls)
            /\ h.pc = "done"
            /\ h.diag # ""
            /\ tfState = h.state

\* C6: in every handler of berth_role and berth_role_permission the first
\* client call that returns an error ends the handler with an error
\* diagnostic: no call follows it and the response state is never written.
C6_ErrorsOnlyPropagated ==
    /\ ErrorOnlyPropagated(rh, roleState)
    /\ ErrorOnlyPropagated(ph, rpState)

\* a berth_role_permission Create whose rule was created and whose list
\* failed, beside a berth_role Update that failed on a delete
C6_Witness ==
    /\ ph.op = "Create" /\ Len(ph.calls) = 3 /\ ~ph.calls[3].ok /\ rpState = NoState
    /\ Len(RulesOf(rules, ph.roleID)) >= 1
    /\ rh.op = "Update" /\ Len(rh.calls) = 3 /\ ~rh.calls[3].ok
    /\ rh.calls[3].call = "DeleteRolePermission"
    /\ roleState = rh.state

\* the id recorded in the berth_role_permission state, 0 when there is none
RecordedRule == IF rpState = NoState THEN 0 ELSE ParseUint(rpState.id)

RuleOnRemote(roleID, ruleID) ==
    \E n \in 1..Len(rules) : rules[n].role = roleID /\ rules[n].id = ruleID

\* the ids the ListRolePermissions call at the start of the reconcile phase returned
ListedByUpdate ==
    IF rh.op = "Update" /\ Len(rh.calls) >= 2 /\ rh.calls[2].call = "ListRolePermissions"
    THEN { rh.calls[2].ret[n] : n \in 1..Len(rh.calls[2].ret) }
    ELSE {}

\* C7: nothing keeps a berth_role Update and a berth_role_permission Create on
\* the same role apart: a rule the Update listed is deleted although the
\* berth_role_permission state records it, and both handlers succeed.
C7_UpdateDeletesRecordedRule ==
    ( /\ Succeeded(rh, "Update")
      /\ Succeeded(ph, "Create")
      /\ ph.roleID = rh.roleID
      /\ RecordedRule \in ListedByUpdate )
        => ~RuleOnRemote(rh.roleID, RecordedRule)

\* both handlers succeeded, their calls interleaved (the Create recorded a rule
\* the Update had listed and not yet deleted), the recorded rule is gone, and
\* the remote rules are not the ones the Update's plan asks for
C7_Witness ==
    /\ Succeeded(rh, "Update")
    /\ Succeeded(ph, "Create")
    /\ ph.roleID = rh.roleID
    /\ RecordedRule \in ListedByUpdate
    /\ ~RuleOnRemote(rh.roleID, RecordedRule)
    /\ ~RemoteIsPlan(rh.roleID, rh.plan)

\* C8: a berth_role_permission Update adds the error 'Update not supported',
\* makes no client call, and leaves the Terraform state and the remote as they were.
C8_UpdateNotSupported ==
    /\ [](ph.op = "Update" =>
            /\ ph.pc = "done"
            /\ ph.diag = "Update not supported"
            /\ ph.calls = << >>
            /\ rpState = ph.state)
    /\ [][(ph' # ph /\ ph'.op = "Update") =>
            /\ rpState' = rpState
            /\ rules' = rules
            /\ roles' = roles]_vars

\* an Update whose plan asks for another pattern than the state records
C8_Witness ==
    /\ ph.op = "Update"
    /\ rpState # NoState
    /\ AskedPattern(ph.plan.stack_pattern) # rpState.stack_pattern
    /\ RuleOnRemote(rpState.role_id, RecordedRule)

\* C9: a null stack_pattern or pattern is sent as '*' and a given one is sent
\* as it is; on success the state records, for every inline permissions block
\* and for berth_role_permission, '*' or the given value.
C9_StackPatternDefault ==
    /\ rh.op \in {"Create", "Update"} =>
          \A n \in CallsNamed(rh, "CreateRolePermission") :
              Rule(rh.calls[n].args[2], rh.calls[n].args[3], rh.calls[n].args[4])
                  \in PlanRules(rh.plan)
    /\ (Succeeded(rh, "Create") \/ Succeeded(rh, "Update")) =>
          /\ Len(roleState.permissions) = Len(rh.plan.permissions)
          /\ \A i \in 1..Len(rh.plan.permissions) :
                roleState.permissions[i].stack_pattern
                    = AskedPattern(rh.plan.permissions[i].stack_pattern)
    /\ ph.op = "Create" =>
          \A n \in CallsNamed(ph, "CreateRolePermission") :
              ph.calls[n].args[4] = AskedPattern(ph.plan.stack_pattern)
    /\ Succeeded(ph, "Create") =>
          rpState.stack_pattern = AskedPattern(ph.plan.stack_pattern)

\* a berth_role_permission created without a pattern, after a berth_role
\* whose state holds an inline block planned without a pattern and one with
C9_Witness ==
    /\ Succeeded(ph, "Create")
    /\ ph.plan.stack_pattern = Null
    /\ ph.calls[2].args[4] = "*"
    /\ rpState.stack_pattern = "*"
    /\ roleState # NoState
    /\ Len(roleState.permissions) = 2
    /\ roleState.permissions[1].stack_pattern = "*"
    /\ roleState.permissions[2].stack_pattern = "dev-*"

\* C10: an Update whose plan and prior state have no permissions and no
\* permission_set block makes the UpdateRole call and no other, and the rules
\* of the role are the same after it as before.
C10_UpdateWithoutBlocks ==
    ( /\ rh.op = "Update"
      /\ ~HasBlocks(rh.plan) /\ ~HasBlocks(rh.state)
      /\ ParseUint(rh.plan.id) # -1 )
        => /\ rh.pc = "done"
           /\ Len(rh.calls) = 1
           /\ rh.calls[1].call = "UpdateRole"
           /\ RulesOf(rules, ParseUint(rh.plan.id)) = rh.pre

\* such an Update of a role that holds a rule a berth_role_permission manages
C10_Witness ==
    /\ Succeeded(rh, "Update")
    /\ ~HasBlocks(rh.plan) /\ ~HasBlocks(rh.state)
    /\ rpState # NoState
    /\ rpState.role_id = rh.roleID
    /\ RuleOnRemote(rh.roleID, RecordedRule)

\* the state m holds both inline permissions and permission_set blocks
IsMixed(m) == Len(m.permissions) > 0 /\ Len(m.permission_set) > 0

\* C11: a berth_role Read in which every call succeeded, made on a state with
\* both permission_set and inline permissions blocks while the remote role
\* holds exactly the rules that state expands to (as Create leaves it), writes
\* a state with the same inline permissions list and the same permission_set.
C11_MixedReadNoDrift ==
    (/\ Succeeded(rh, "Read")
     /\ rh.state # NoState
     /\ IsMixed(rh.state)
     /\ RemoteIsPlan(rh.roleID, rh.state))
        => /\ roleState.permissions = rh.state.permissions
           /\ roleState.permission_set = rh.state.permission_set

\* the text s is a decimal integer that a 64-bit signed role_id can hold: an
\* optional sign, then one or more digits, of a value within the int64 range
IsDecimalInteger(s) ==
    LET body == IF Len(s) > 0 /\ s[1] \in {"+", "-"} THEN Tail(s) ELSE s
        mag == StripZeros(body)
        most == IF Len(s) > 0 /\ s[1] = "-"
                THEN [MaxInt64 EXCEPT ![Len(MaxInt64)] = "8"] ELSE MaxInt64
    IN /\ Len(body) > 0
       /\ \A i \in 1..Len(body) : IsDigit(body[i])
       /\ \/ Len(mag) < Len(most)
          \/ Len(mag) = Len(most) /\ DigitsLeq(mag, most)

\* the integer v is the one the text s writes
Denotes(s, v) ==
    LET neg == s[1] = "-"
        body == IF s[1] \in {"+", "-"} THEN Tail(s) ELSE s
    IN /\ FormatUint(IF v < 0 THEN 0 - v ELSE v) = StripZeros(body)
       /\ v < 0 => neg
       /\ (neg /\ v >= 0) => v = 0

\* C12: when a berth_role_permission ImportState has returned: if the import
\* id holds exactly one ':' and the text before it is a decimal integer (of
\* the 64-bit role_id), there is no error and the response state holds the
\* text after the ':' as id, the integer before it as role_id, and nothing
\* else; otherwise there is an error and no attribute is set. The resource's
\* state is not touched either way.
C12_ImportIdFormat ==
    ph.op = "ImportState" =>
        LET id == ph.importID
            colons == { i \in 1..Len(id) : id[i] = ":" }
            c == CHOOSE i \in colons : TRUE
            first == SubSeq(id, 1, c - 1)
            second == SubSeq(id, c + 1, Len(id))
        IN /\ rpState = NoState
           /\ ph.calls = << >>
           /\ IF Cardinality(colons) = 1 /\ IsDecimalInteger(first)
              THEN /\ ph.diag = ""
                   /\ ph.data # NoState
                   /\ ph.data.id = second
                   /\ Denotes(first, ph.data.role_id)
                   /\ ph.data.server_id = Null
                   /\ ph.data.permission_name = Null
                   /\ ph.data.stack_pattern = Null
              ELSE /\ ph.diag # ""
                   /\ ph.pc = "done"
                   /\ ph.data = NoState

\* an import of 'role_id:permission_id' whose second part is no number: it is
\* taken verbatim
C12_Witness ==
    /\ ph.op = "ImportState"
    /\ ph.importID = <<"1", ":", "x">>
    /\ ph.diag = ""
    /\ ph.data.id = <<"x">>
    /\ ph.data.role_id = 1

\* the state is the plan as a Create or an Update of that plan writes it: the
\* same name, description and blocks, the patterns as sent, the ids computed
SameConfig(state, plan) ==
    /\ state # NoState
    /\ state.name = plan.name
    /\ state.description = plan.description
    /\ state.permission_set = plan.permission_set
    /\ Len(state.permissions) = Len(plan.permissions)
    /\ \A m \in 1..Len(plan.permissions) :
          /\ state.permissions[m].server_id = plan.permissions[m].server_id
          /\ state.permissions[m].permission_name = plan.permissions[m].permission_name
          /\ state.permissions[m].stack_pattern
                = AskedPattern(plan.permissions[m].stack_pattern)

\* how many rules of the list perms equal t
CountIn(perms, t) ==
    Cardinality({ n \in 1..Len(perms) : RulesIn(perms)[n] = t })

\* the two lists hold the same rules, each as often
SameCollection(a, b) ==
    /\ Len(a) = Len(b)
    /\ \A n \in 1..Len(a) : CountIn(a, RulesIn(a)[n]) = CountIn(b, RulesIn(a)[n])

\* C13: a berth_role Update in which every call succeeded, run with a plan
\* that has blocks on a state an earlier run of the same plan wrote, while the
\* remote role holds what that run left (the plan's rules, each as often),
\* leaves the role with the same collection of (server_id, permission_id,
\* stack_pattern) rules as it found: none duplicated, none lost.
C13_UpdateIdempotent ==
    (/\ Succeeded(rh, "Update")
     /\ HasBlocks(rh.plan)
     /\ SameConfig(rh.state, rh.plan)
     /\ \A t \in PlanRules(rh.plan) \cup { RulesIn(rh.pre)[n] : n \in 1..Len(rh.pre) } :
           CountIn(rh.pre, t) = PlanCount(rh.plan, t))
        => SameCollection(rh.pre, RulesOf(rules, rh.roleID))

\* a second Update of the imported role with one plan of three or more
\* rules: the collection is the same, the rule ids are all new
C13_Witness ==
    /\ Succeeded(rh, "Update")
    /\ rh.roleID = 1
    /\ SameConfig(rh.state, rh.plan)
    /\ Len(rh.pre) >= 3
    /\ SameCollection(rh.pre, RulesOf(rules, rh.roleID))
    /\ \A n \in 1..Len(rh.pre) :
          rh.pre[n].id \notin { Ids(RulesOf(rules, rh.roleID))[m] :
                                  m \in 1..Len(RulesOf(rules, rh.roleID)) }

====
